---- MODULE Spec2Model ----
(***************************************************************************)
(* Offline-first record replica and its push/pull reconciliation with the  *)
(* remote store (PWA-Application).                                          *)
(*                                                                          *)
(*   client  src/client/src/db/dexie.ts              local tables, helpers  *)
(*           src/api/health.ts (lines 46-167)        SyncService            *)
(*           src/client/src/hooks/useSyncManager.ts  performSync, wiring    *)
(*           src/client/src/services/api.ts          ApiService.request     *)
(*   server  src/server/src/routes/items.ts          GET/POST /items/sync   *)
(*           src/unnamed/part_003                    ItemSchema             *)
(*                                                                          *)
(* Every await of the client code is a scheduling point: an action is the  *)
(* code that runs between two awaits.  A timestamp is a reading of one     *)
(* logical clock, which a reading may find advanced by one.                *)
(*                                                                          *)
(* The specifications share the actions:                                    *)
(*   Spec         one record, one performSync at a time, every failure,    *)
(*                connectivity change, reload and foreign write;            *)
(*   SpecOverlap  one record, two performSync invocations in progress,      *)
(*                online, with lost requests and responses;                 *)
(*   SpecWide     two records, one performSync at a time, online, with      *)
(*                lost requests and responses and foreign writes;           *)
(*   SpecBackground  no record, two pages, the worker's 'sync' events, the  *)
(*                messages it posts to the pages, and updateItem called     *)
(*                with an id the replica does not hold;                     *)
(*   SpecLive     one record, one performSync at a time, every failure and  *)
(*                connectivity change, and every await settles.             *)
(***************************************************************************)
EXTENDS Integers, Sequences, FiniteSets, TLC

\* ---- bounds -------------------------------------------------------------
MaxTime == 2

MaxInbox == 2
MaxEvents == 2
MaxCalls == 2

Times == 1..MaxTime
Ids == {1, 2}
Runs == {1, 2}
SoloIds == {1}
SoloRuns == {1}

\* The open pages the service worker controls; ThisClient is the page whose
\* hook and service the other variables describe.
Clients == {1, 2}
ThisClient == 1

\* What a record holds is named by who wrote it: this replica or another client.
LocalTitle == "a"
RemoteTitle == "b"
Titles == {LocalTitle, RemoteTitle}

VARIABLES
    items,          \* db.items: id -> local record (a function on the ids present)
    syncMetadata,   \* db.syncMetadata: its rows in key order, each a lastSyncTime
    server,         \* the Item collection: a set of stored documents
    clock,          \* the latest reading of new Date()
    svcIsSyncing,   \* SyncService.isSyncing
    isSyncing,      \* useState isSyncing
    isSyncingRef,   \* isSyncingRef.current
    isOnline,       \* useOnlineStatus().isOnline
    isOnlineRef,    \* isOnlineRef.current
    runs,           \* the performSync invocations, each at one of its awaits
    bornOffline,    \* history: the ids of the records created while offline
    strayUpdates,   \* history: id -> how updateItem settled when the id was absent
    inbox,          \* client -> the messages posted to it and not yet dispatched
    swEvent,        \* history: the tag of the latest 'sync' event and their number
    calls           \* history: client -> the calls its message handler has made

replica == <<items, syncMetadata>>
hook == <<isSyncing, isSyncingRef, isOnline, isOnlineRef>>
background == <<inbox, swEvent, calls>>
vars == <<items, syncMetadata, server, clock, svcIsSyncing, isSyncing,
          isSyncingRef, isOnline, isOnlineRef, runs, bornOffline, strayUpdates,
          inbox, swEvent, calls>>

\* ---- values -------------------------------------------------------------
\* The `error` of a phase result.
ErrNone == "none"
ErrBusy == "Sync already in progress"
ErrTransport == "Failed to fetch"
ErrStatus == "HTTP error! status"
ErrRefused == "success:false"
ErrLocal == "local store error"
ErrNotFound == "NotFound"
GatewayErrors == {ErrTransport, ErrStatus, ErrRefused}

EmptyTable == [i \in {} |-> 0]

\* A phase result not yet produced; count is `synced` or `downloaded`.
Pending == [success |-> FALSE, count |-> 0, error |-> ErrNone]

\* The value fullSync has not returned yet.
NoResult == [success |-> FALSE, synced |-> 0, downloaded |-> 0]

\* The trigger sources of performSync: the button, the auto-sync effect and
\* the message handler.
NoTrigger == "none"
TriggerManual == "manual"
TriggerRestored == "restored"
TriggerMessage == "message"

\* The tags of 'sync' events and the messages a page can get.
NoTag == "none"
SyncItemsTag == "sync-items"
OtherTag == "other-tag"
SyncTags == {SyncItemsTag, OtherTag}
BackgroundSync == [type |-> "BACKGROUND_SYNC", tag |-> SyncItemsTag]
OtherMessage == [type |-> "OTHER", tag |-> NoTag]

\* A performSync invocation that has not been made: its locals are blank.
\*   batch     unsyncedItems            ids       the ids of unsyncedItems
\*   upload    uploadResult             download  downloadResult
\*   lastSync  lastSync                 resp      the items still to be looped over
\*   nresp     items.length             applied   the ids the loop has put
\*   metaRows  metadata.length          result    what fullSync returned
\*   timestamp response.timestamp, <<>> before the response
\*   had       history: the ids of the records held when the call was made
\*   touched   history: the ids of the records modified locally since the call
\*   by        history: the trigger source that made the call
\*   edited    history: the ids of the records modified locally since the call
\*             read the dirty list, until it marks its batch or its push ends
\*   posts     history: the POST /items/sync requests the call has issued
\*   gets      history: the GET /items/sync requests the call has issued
IdleRun ==
    [pc |-> "idle", batch |-> EmptyTable, ids |-> {}, upload |-> Pending,
     lastSync |-> <<>>, resp |-> <<>>, nresp |-> 0, applied |-> {},
     metaRows |-> 0, download |-> Pending, result |-> NoResult,
     timestamp |-> <<>>, had |-> {}, touched |-> {}, by |-> NoTrigger,
     edited |-> {}, posts |-> 0, gets |-> 0]

PushPcs == {"pushRead", "pushSent", "pushResp", "pushUlt", "pushUltW"}
PullPcs == {"pullRead", "pullSent", "pullGet", "pullPut", "pullUlt", "pullUltW"}

\* ---- the remote store ---------------------------------------------------
\* ItemSchema keeps id, title (description and imageUrl travel with it),
\* syncedAt and, by its timestamps option, updatedAt, which the store stamps
\* at every write.  It has no `deleted` and no `synced` path: a write drops
\* them.
ToDoc(id, item, now) ==
    [id |-> id, title |-> item.title, updatedAt |-> now, syncedAt |-> now]

\* A store that inserts at every write instead of replacing by id (what C8 excludes).
InsertAlways(store, id, item, now) == store \cup {ToDoc(id, item, now)}

\* Item.findOneAndUpdate({id}, {...item, syncedAt: new Date()}, {upsert: true}).
FindOneAndUpdate(store, id, item, now) ==
    IF \E d \in store : d.id = id
    THEN LET old == CHOOSE d \in store : d.id = id
         IN  (store \ {old}) \cup {ToDoc(id, item, now)}
    ELSE store \cup {ToDoc(id, item, now)}

RECURSIVE UpsertAll(_, _, _, _)
UpsertAll(store, batch, todo, now) ==
    IF todo = {} THEN store
    ELSE LET id == CHOOSE i \in todo : \A j \in todo : i <= j
         IN  UpsertAll(FindOneAndUpdate(store, id, batch[id], now), batch,
                       todo \ {id}, now)

\* POST /items/sync with body {items}.
BatchUpsert(store, batch, now) == UpsertAll(store, batch, DOMAIN batch, now)

\* GET /items/sync?lastSync=...; lastSync is <<>> when the parameter is omitted.
FetchSince(store, lastSync) ==
    IF lastSync = <<>> THEN store
    ELSE {d \in store : d.updatedAt > lastSync[1]}

\* GET /items.
FetchAll(store) == store

\* The response's array; its order plays no part.
RECURSIVE DocsInOrder(_)
DocsInOrder(docs) ==
    IF docs = {} THEN <<>>
    ELSE LET d == CHOOSE x \in docs : \A y \in docs : x.id <= y.id
         IN  <<d>> \o DocsInOrder(docs \ {d})

ServerIds == {d.id : d \in server}

\* ---- the local replica --------------------------------------------------
Has(id) == id \in DOMAIN items

\* db.items.put / db.items.add.
Put(tbl, id, rec) == [i \in DOMAIN tbl \cup {id} |-> IF i = id THEN rec ELSE tbl[i]]

\* An update that removes the record it is given (what C16 excludes).
RemoveRecord(tbl, id, rec) == [i \in DOMAIN tbl \ {id} |-> tbl[i]]

\* db.items.update(id, changes): changes a record that exists, else nothing.
TableUpdate(tbl, id, rec) == IF id \in DOMAIN tbl THEN [tbl EXCEPT ![id] = rec] ELSE tbl

\* {...a, ...b}: the fields of both, those of b where both have one.
Spread(a, b) ==
    [f \in DOMAIN a \cup DOMAIN b |-> IF f \in DOMAIN b THEN b[f] ELSE a[f]]

\* What a caller hands to addItem or updateItem: the fields of the form, or
\* these and fields of its own for synced and updatedAt.
CallerFields ==
    {[title |-> LocalTitle],
     [title |-> LocalTitle, synced |-> TRUE, updatedAt |-> 1]}

\* The record addItem builds.
NewItem(item, now) ==
    Spread(item, [updatedAt |-> now, synced |-> FALSE, deleted |-> FALSE])

\* A change in which the caller's fields come last (what C15 excludes).
CallerWins(rec, updates, now) ==
    Spread(rec, Spread([updatedAt |-> now, synced |-> FALSE], updates))

\* The record updateItem leaves: the changes {...updates, updatedAt, synced}
\* applied to the record.
Updated(rec, updates, now) ==
    Spread(rec, Spread(updates, [updatedAt |-> now, synced |-> FALSE]))

\* The record deleteItem leaves.
Tombstoned(rec, now) ==
    [rec EXCEPT !.deleted = TRUE, !.synced = FALSE, !.updatedAt = now]

\* getUnsyncedItems.
GetUnsyncedItems(tbl) ==
    [id \in {i \in DOMAIN tbl : tbl[i].synced = FALSE} |-> tbl[id]]

\* A marking of every dirty record of the table (what C21 excludes).
MarkAllDirty(tbl, ids, now) ==
    [id \in DOMAIN tbl |->
        IF ~tbl[id].synced THEN [tbl[id] EXCEPT !.synced = TRUE, !.updatedAt = now]
        ELSE tbl[id]]

\* A marking that leaves the flags as they are (what C4 excludes).
MarkNothing(tbl, ids, now) == tbl

\* markItemsAsSynced: bulkUpdate changes the keys that exist.
MarkItemsAsSynced(tbl, ids, now) ==
    [id \in DOMAIN tbl |->
        IF id \in ids THEN [tbl[id] EXCEPT !.synced = TRUE, !.updatedAt = now]
        ELSE tbl[id]]

\* getLastSyncTime: the first row's lastSyncTime, <<>> for null.
GetLastSyncTime(meta) == IF Len(meta) > 0 THEN <<meta[1]>> ELSE <<>>

\* An updateLastSyncTime that writes nothing (what C5 excludes).
WriteNothing(meta, rows, now) == meta

\* updateLastSyncTime after its toArray() saw `rows` rows: an update of the
\* first row, or the add of a new row.
WriteLastSyncTime(meta, rows, now) ==
    IF rows > 0 THEN [meta EXCEPT ![1] = now] ELSE Append(meta, now)

\* What db.items.get(id) resolves to, as far as the loop reads it:
\* <<>> when nothing is found, else <<existing.updatedAt>>.
Existing(tbl, id) == IF id \in DOMAIN tbl THEN <<tbl[id].updatedAt>> ELSE <<>>

\* A test that lets the remote record win a tie (what C3 excludes).
ShouldApplyOnTie(existing, remoteUpd) == existing = <<>> \/ remoteUpd >= existing[1]

\* The test of syncFromServer on a remote record.
ShouldApply(existing, remoteUpd) == existing = <<>> \/ remoteUpd > existing[1]

\* The record db.items.put({...item, synced: true, ...}) writes: the whole
\* record is replaced, and the remote document carries no `deleted`.
FromRemote(doc) ==
    [title |-> doc.title, updatedAt |-> doc.updatedAt, synced |-> TRUE,
     deleted |-> FALSE]

\* ---- initial state ------------------------------------------------------
Init ==
    /\ items = EmptyTable
    /\ syncMetadata = <<>>
    /\ server = {}
    /\ clock = 1
    /\ svcIsSyncing = FALSE
    /\ isSyncing = FALSE
    /\ isSyncingRef = FALSE
    /\ isOnline \in BOOLEAN
    /\ isOnlineRef = isOnline
    /\ runs = [r \in Runs |-> IdleRun]
    /\ bornOffline = {}
    /\ strayUpdates = EmptyTable
    /\ inbox = [c \in Clients |-> <<>>]
    /\ swEvent = [tag |-> NoTag, n |-> 0]
    /\ calls = [c \in Clients |-> 0]

\* The readings new Date() can give next: time has passed, or not measurably.
Nows == {t \in Times : clock <= t /\ t <= clock + 1}

\* ---- local mutations (dexie.ts) -----------------------------------------
\* The ids no replica has used; a new record takes the least of them.
FreshIds == Ids \ (DOMAIN items \cup ServerIds)
IsFresh(id) == id \in FreshIds /\ \A j \in FreshIds : id <= j

\* addItem.
AddItem(id, item, now) ==
    /\ IsFresh(id)
    /\ clock' = now
    /\ items' = Put(items, id, NewItem(item, now))
    /\ bornOffline' = IF isOnline THEN bornOffline ELSE bornOffline \cup {id}
    /\ UNCHANGED <<syncMetadata, server, svcIsSyncing, hook, runs, strayUpdates,
                   background>>

\* The invocations in progress note a local change of the record.
Touch(id) ==
    [r \in Runs |-> IF runs[r].pc = "idle" THEN runs[r]
                    ELSE IF runs[r].pc \in {"pushSent", "pushResp"}
                    THEN [runs[r] EXCEPT !.touched = @ \cup {id},
                                         !.edited = @ \cup {id}]
                    ELSE [runs[r] EXCEPT !.touched = @ \cup {id}]]

\* How updateItem settles after db.items.update resolved to the number of
\* records it changed: the number is not read.
UpdateItemSettles(count) == ErrNone

\* updateItem(id, updates).
UpdateItem(id, updates, now) ==
    /\ clock' = now
    /\ items' = TableUpdate(items, id, Updated(items[id], updates, now))
    /\ runs' = IF Has(id) THEN Touch(id) ELSE runs
    /\ strayUpdates' = IF Has(id) THEN strayUpdates
                       ELSE Put(strayUpdates, id, UpdateItemSettles(0))
    /\ UNCHANGED <<syncMetadata, server, svcIsSyncing, hook, bornOffline, background>>

\* deleteItem(id), of a record the list shows.
DeleteItem(id, now) ==
    /\ Has(id)
    /\ ~items[id].deleted
    /\ clock' = now
    /\ items' = TableUpdate(items, id, Tombstoned(items[id], now))
    /\ runs' = Touch(id)
    /\ UNCHANGED <<syncMetadata, server, svcIsSyncing, hook, bornOffline,
                   strayUpdates, background>>

\* ---- SyncService (health.ts 46-167) and performSync --------------------
Ok(n) == [success |-> TRUE, count |-> n, error |-> ErrNone]
Failed(e) == [success |-> FALSE, count |-> 0, error |-> e]

\* The guard of performSync reads the refs, not the state.
PerformSyncGuard(onlineRef, syncingRef) == onlineRef /\ ~syncingRef

\* A fullSync that starts its pull without awaiting its push (what C11 excludes).
PullAtOnce(flag) == <<flag, "pullRead", Pending>>

\* syncToServer up to its first await: <<isSyncing, the await reached, uploadResult>>.
\* A call that finds the flag set returns at once, and fullSync goes on to
\* syncFromServer and its first await.
SyncToServerEnter(flag) ==
    IF flag THEN <<flag, "pullRead", Failed(ErrBusy)>>
    ELSE <<TRUE, "pushRead", Pending>>

\* A result that reports the pull phase alone (what C10 excludes).
PullOnlyResult(upload, download) ==
    [success |-> download.success,
     synced |-> upload.count, downloaded |-> download.count]

\* The value fullSync returns.
FullSyncResult(upload, download) ==
    [success |-> upload.success /\ download.success,
     synced |-> upload.count, downloaded |-> download.count]

\* A syncToServer that is called again after a failure (what C23 excludes).
PushAgain(run, upload) ==
    IF upload.success \/ run.posts > 1
    THEN [run EXCEPT !.upload = upload, !.batch = EmptyTable, !.edited = {},
                     !.pc = "pullRead"]
    ELSE [run EXCEPT !.batch = EmptyTable, !.edited = {}, !.pc = "pushRead"]

\* The end of syncToServer: fullSync keeps its result and calls syncFromServer.
EndPush(run, upload) ==
    [run EXCEPT !.upload = upload, !.batch = EmptyTable, !.edited = {},
                !.pc = "pullRead"]

\* The end of syncFromServer and, with it, of fullSync.
EndPull(run, download) ==
    [run EXCEPT !.download = download, !.resp = <<>>, !.timestamp = <<>>,
                !.result = FullSyncResult(run.upload, download), !.pc = "fin"]

\* The loop of syncFromServer goes to the next item, or is over.
LoopPc(rest) == IF rest = <<>> THEN "pullUlt" ELSE "pullGet"

Free(r) == runs[r].pc = "idle" /\ \A q \in Runs : q < r => runs[q].pc # "idle"

\* performSync after its guard, up to the first await inside fullSync.
Enter(r, by) ==
    /\ Free(r)
    /\ isSyncing' = TRUE
    /\ LET e == SyncToServerEnter(svcIsSyncing)
       IN  /\ svcIsSyncing' = e[1]
           /\ runs' = [runs EXCEPT ![r] = [IdleRun EXCEPT !.pc = e[2], !.upload = e[3],
                                                           !.had = DOMAIN items,
                                                           !.by = by]]

\* performSync called by the user, from the call to the first await inside
\* fullSync.
PerformSync(r) ==
    /\ PerformSyncGuard(isOnlineRef, isSyncingRef)
    /\ Enter(r, TriggerManual)
    /\ UNCHANGED <<replica, server, clock, isSyncingRef, isOnline, isOnlineRef,
                   bornOffline, strayUpdates, background>>

\* getUnsyncedItems resolves: nothing to push, or the batch is sent.
PushRead(r) ==
    /\ runs[r].pc = "pushRead"
    /\ LET batch == GetUnsyncedItems(items)
       IN  IF DOMAIN batch = {}
           THEN /\ runs' = [runs EXCEPT ![r] = EndPush(@, Ok(0))]
                /\ svcIsSyncing' = FALSE
           ELSE /\ runs' = [runs EXCEPT ![r] = [@ EXCEPT !.batch = batch,
                                   !.ids = DOMAIN batch, !.posts = @ + 1,
                                   !.pc = "pushSent"]]
                /\ UNCHANGED svcIsSyncing
    /\ UNCHANGED <<replica, server, clock, hook, bornOffline, strayUpdates, background>>

\* POST /items/sync is served.
ServerSync(r, now) ==
    /\ runs[r].pc = "pushSent"
    /\ isOnline
    /\ clock' = now
    /\ server' = BatchUpsert(server, runs[r].batch, now)
    /\ runs' = [runs EXCEPT ![r] = [@ EXCEPT !.batch = EmptyTable, !.pc = "pushResp"]]
    /\ UNCHANGED <<replica, svcIsSyncing, hook, bornOffline, strayUpdates, background>>

\* The response says success: markItemsAsSynced(ids).
PushMark(r, now) ==
    /\ runs[r].pc = "pushResp"
    /\ clock' = now
    /\ items' = MarkItemsAsSynced(items, runs[r].ids, now)
    /\ runs' = [runs EXCEPT ![r] = [@ EXCEPT !.edited = {}, !.pc = "pushUlt"]]
    /\ UNCHANGED <<syncMetadata, server, svcIsSyncing, hook, bornOffline,
                   strayUpdates, background>>

\* updateLastSyncTime of the push: toArray resolves.
PushUltRead(r) ==
    /\ runs[r].pc = "pushUlt"
    /\ runs' = [runs EXCEPT ![r] = [@ EXCEPT !.metaRows = Len(syncMetadata),
                                            !.pc = "pushUltW"]]
    /\ UNCHANGED <<replica, server, clock, svcIsSyncing, hook, bornOffline,
                   strayUpdates, background>>

\* updateLastSyncTime of the push writes; syncToServer returns success.
PushUltWrite(r, now) ==
    /\ runs[r].pc = "pushUltW"
    /\ clock' = now
    /\ syncMetadata' = WriteLastSyncTime(syncMetadata, runs[r].metaRows, now)
    /\ runs' = [runs EXCEPT ![r] = EndPush(@, Ok(Cardinality(runs[r].ids)))]
    /\ svcIsSyncing' = FALSE
    /\ UNCHANGED <<items, server, hook, bornOffline, strayUpdates, background>>

\* getLastSyncTime resolves; GET /items/sync is sent.
PullRead(r) ==
    /\ runs[r].pc = "pullRead"
    /\ runs' = [runs EXCEPT ![r] = [@ EXCEPT !.lastSync = GetLastSyncTime(syncMetadata),
                                            !.gets = @ + 1, !.pc = "pullSent"]]
    /\ UNCHANGED <<replica, server, clock, svcIsSyncing, hook, bornOffline,
                   strayUpdates, background>>

\* GET /items/sync is served and its response read: the items found and the
\* store's reading of the time.
ServerFetch(r, now) ==
    /\ runs[r].pc = "pullSent"
    /\ isOnline
    /\ clock' = now
    /\ LET resp == DocsInOrder(FetchSince(server, runs[r].lastSync))
       IN  runs' = [runs EXCEPT ![r] = [@ EXCEPT !.resp = resp, !.nresp = Len(resp),
                                                !.timestamp = <<now>>,
                                                !.pc = LoopPc(resp)]]
    /\ UNCHANGED <<replica, server, svcIsSyncing, hook, bornOffline, strayUpdates,
                   background>>

\* db.items.get(item.id) resolves and the test is made.
PullGet(r) ==
    /\ runs[r].pc = "pullGet"
    /\ LET d == Head(runs[r].resp)
           rest == Tail(runs[r].resp)
       IN  IF ShouldApply(Existing(items, d.id), d.updatedAt)
           THEN runs' = [runs EXCEPT ![r] = [@ EXCEPT !.pc = "pullPut"]]
           ELSE runs' = [runs EXCEPT ![r] = [@ EXCEPT !.resp = rest, !.pc = LoopPc(rest)]]
    /\ UNCHANGED <<replica, server, clock, svcIsSyncing, hook, bornOffline,
                   strayUpdates, background>>

\* db.items.put of the remote record.
PullPut(r) ==
    /\ runs[r].pc = "pullPut"
    /\ LET d == Head(runs[r].resp)
           rest == Tail(runs[r].resp)
       IN  /\ items' = Put(items, d.id, FromRemote(d))
           /\ runs' = [runs EXCEPT ![r] = [@ EXCEPT !.resp = rest,
                                   !.applied = @ \cup {d.id}, !.pc = LoopPc(rest)]]
    /\ UNCHANGED <<syncMetadata, server, clock, svcIsSyncing, hook, bornOffline,
                   strayUpdates, background>>

\* updateLastSyncTime of the pull: toArray resolves.
PullUltRead(r) ==
    /\ runs[r].pc = "pullUlt"
    /\ runs' = [runs EXCEPT ![r] = [@ EXCEPT !.metaRows = Len(syncMetadata),
                                            !.pc = "pullUltW"]]
    /\ UNCHANGED <<replica, server, clock, svcIsSyncing, hook, bornOffline,
                   strayUpdates, background>>

\* updateLastSyncTime of the pull writes; syncFromServer and fullSync return.
PullUltWrite(r, now) ==
    /\ runs[r].pc = "pullUltW"
    /\ clock' = now
    /\ syncMetadata' = WriteLastSyncTime(syncMetadata, runs[r].metaRows, now)
    /\ runs' = [runs EXCEPT ![r] = EndPull(@, Ok(runs[r].nresp))]
    /\ UNCHANGED <<items, server, svcIsSyncing, hook, bornOffline, strayUpdates,
                   background>>

\* ---- failures -----------------------------------------------------------
\* Gateway failures that show at any await of the push, after the marking
\* too (what C22 excludes).
FailsAtAnyPushAwait(pc) == IF pc \in PushPcs \cup {"pullSent"} THEN GatewayErrors ELSE {}

\* The awaits a gateway failure can end: the request is refused, fails on the
\* way or is answered with {success: false}; the answer to an accepted batch
\* can only be lost.
GatewayFailures(pc) ==
    CASE pc \in {"pushSent", "pullSent"} -> GatewayErrors
      [] pc = "pushResp" -> {ErrTransport}
      [] OTHER -> {}

\* The awaits on the local store.
LocalPcs ==
    {"pushRead", "pushResp", "pushUlt", "pushUltW",
     "pullRead", "pullGet", "pullPut", "pullUlt", "pullUltW"}

\* A syncToServer whose request is made outside its try block (what C9 excludes).
RequestOutsideTry(pc) == pc \in (PushPcs \cup PullPcs) \ {"pushSent"}

\* Every await of syncToServer and of syncFromServer is inside its try block.
InTry(pc) == pc \in PushPcs \cup PullPcs

\* What a failure at an await does to the invocation: the catch block of the
\* phase returns a failure, or the exception leaves fullSync.
Catch(run, e) ==
    IF ~InTry(run.pc) THEN [run EXCEPT !.pc = "threw"]
    ELSE IF run.pc \in PushPcs THEN EndPush(run, Failed(e))
    ELSE EndPull(run, Failed(e))

\* A syncToServer without its finally block (what C20 excludes).
FlagKept(flag, pc) == flag

\* The finally block of syncToServer.
Finally(flag, pc) == IF pc \in PushPcs THEN FALSE ELSE flag

GatewayFail(r, e) ==
    /\ e \in GatewayFailures(runs[r].pc)
    /\ runs' = [runs EXCEPT ![r] = Catch(@, e)]
    /\ svcIsSyncing' = Finally(svcIsSyncing, runs[r].pc)
    /\ UNCHANGED <<replica, server, clock, hook, bornOffline, strayUpdates, background>>

LocalFail(r) ==
    /\ runs[r].pc \in LocalPcs
    /\ runs' = [runs EXCEPT ![r] = Catch(@, ErrLocal)]
    /\ svcIsSyncing' = Finally(svcIsSyncing, runs[r].pc)
    /\ UNCHANGED <<replica, server, clock, hook, bornOffline, strayUpdates, background>>

\* performSync after fullSync settled: its finally block.
Finish(r) ==
    /\ runs[r].pc \in {"fin", "threw"}
    /\ runs' = [runs EXCEPT ![r] = IdleRun]
    /\ isSyncing' = FALSE
    /\ UNCHANGED <<replica, server, clock, svcIsSyncing, isSyncingRef, isOnline,
                   isOnlineRef, bornOffline, strayUpdates, background>>

\* ---- the component and its environment ----------------------------------
\* A render commits: the effect copies the state into the refs.
Render ==
    /\ isSyncingRef # isSyncing \/ isOnlineRef # isOnline
    /\ isSyncingRef' = isSyncing
    /\ isOnlineRef' = isOnline
    /\ UNCHANGED <<replica, server, clock, svcIsSyncing, isSyncing, isOnline, runs,
                   bornOffline, strayUpdates, background>>

\* The test of the auto-sync effect.
AutoSync(online, wasOffline) == online /\ wasOffline

\* An auto-sync effect that runs before the effect that updates isOnlineRef
\* (what C18 excludes).
RefBeforeEffect(online, onlineRef) == onlineRef

\* isOnlineRef.current when the auto-sync effect runs: the effect that copies
\* isOnline into the ref is declared before it, and has run.
RefAtAutoSync(online, onlineRef) == online

\* useOnlineStatus() reports a change.  Going offline changes isOnline.  Going
\* online is the restored transition, the render with isOnline and wasOffline
\* both true: its effects copy the state into the refs and the auto-sync
\* effect calls performSync.
Connectivity(up) ==
    /\ up # isOnline
    /\ isOnline' = up
    /\ IF AutoSync(up, ~isOnline)
       THEN /\ isSyncingRef' = isSyncing
            /\ isOnlineRef' = up
            /\ IF PerformSyncGuard(RefAtAutoSync(up, isOnlineRef), isSyncing)
               THEN \E r \in Runs : Enter(r, TriggerRestored)
               ELSE UNCHANGED <<svcIsSyncing, isSyncing, runs>>
       ELSE UNCHANGED <<svcIsSyncing, isSyncing, isSyncingRef, isOnlineRef, runs>>
    /\ UNCHANGED <<replica, server, clock, bornOffline, strayUpdates, background>>

\* The page is closed and opened again: the tables persist, nothing else does.
Restart ==
    /\ runs' = [r \in Runs |-> IdleRun]
    /\ svcIsSyncing' = FALSE
    /\ isSyncing' = FALSE
    /\ isSyncingRef' = FALSE
    /\ isOnlineRef' = isOnline
    /\ UNCHANGED <<replica, server, clock, isOnline, bornOffline, strayUpdates,
                   background>>

\* Another client's write of a record reaches the remote store.
RemoteWrite(id, now) ==
    /\ id \in ServerIds \/ IsFresh(id)
    /\ clock' = now
    /\ server' = FindOneAndUpdate(server, id, [title |-> RemoteTitle], now)
    /\ UNCHANGED <<replica, svcIsSyncing, hook, runs, bornOffline, strayUpdates,
                   background>>

\* ---- the service worker and the message handler -------------------------
\* syncItems() of the worker: clients.matchAll(), then one postMessage to
\* each client.
PostToAll(boxes) == [c \in Clients |-> Append(boxes[c], BackgroundSync)]

\* The 'sync' listener of the worker.
OnSync(tag, boxes) == IF tag = SyncItemsTag THEN PostToAll(boxes) ELSE boxes

\* The browser fires a 'sync' event at the worker.
SwSync(tag) ==
    /\ swEvent.n < MaxEvents
    /\ \A c \in Clients : Len(inbox[c]) < MaxInbox
    /\ swEvent' = [tag |-> tag, n |-> swEvent.n + 1]
    /\ inbox' = OnSync(tag, inbox)
    /\ UNCHANGED <<replica, server, clock, svcIsSyncing, hook, runs, bornOffline,
                   strayUpdates, calls>>

\* A message of another type is posted to a page.
PostOther(c) ==
    /\ Len(inbox[c]) < MaxInbox
    /\ inbox' = [inbox EXCEPT ![c] = Append(@, OtherMessage)]
    /\ UNCHANGED <<replica, server, clock, svcIsSyncing, hook, runs, bornOffline,
                   strayUpdates, swEvent, calls>>

\* A handler that calls performSync for every message (what C19 excludes).
CallsForAny(msg) == 1

\* The calls of performSync the message handler makes for a message.
HandlerCalls(msg) == IF msg.type = "BACKGROUND_SYNC" THEN 1 ELSE 0

\* A page's 'message' listener is run with the oldest message of its inbox.
\* The call is followed in this page; of another page it is counted.
Deliver(c) ==
    /\ inbox[c] # <<>>
    /\ calls[c] < MaxCalls
    /\ inbox' = [inbox EXCEPT ![c] = Tail(@)]
    /\ LET n == HandlerCalls(Head(inbox[c]))
       IN  /\ calls' = [calls EXCEPT ![c] = @ + n]
           /\ IF c = ThisClient /\ n > 0 /\ PerformSyncGuard(isOnlineRef, isSyncingRef)
              THEN \E r \in Runs : Enter(r, TriggerMessage)
              ELSE UNCHANGED <<svcIsSyncing, isSyncing, runs>>
    /\ UNCHANGED <<replica, server, clock, isSyncingRef, isOnline, isOnlineRef,
                   bornOffline, strayUpdates, swEvent>>

\* ---- specifications -----------------------------------------------------
\* A caller's updateItem with an id the replica does not hold.
StrayUpdate(id) ==
    /\ ~Has(id)
    /\ \E updates \in CallerFields : \E now \in Nows : UpdateItem(id, updates, now)

LocalStep(id) ==
    \E now \in Nows :
        \/ \E item \in CallerFields : AddItem(id, item, now)
        \/ \E updates \in CallerFields : Has(id) /\ UpdateItem(id, updates, now)
        \/ DeleteItem(id, now)

SyncStep(r) ==
    \/ PerformSync(r)
    \/ PushRead(r)
    \/ \E now \in Nows : ServerSync(r, now)
    \/ \E now \in Nows : PushMark(r, now)
    \/ PushUltRead(r)
    \/ \E now \in Nows : PushUltWrite(r, now)
    \/ PullRead(r)
    \/ \E now \in Nows : ServerFetch(r, now)
    \/ PullGet(r)
    \/ PullPut(r)
    \/ PullUltRead(r)
    \/ \E now \in Nows : PullUltWrite(r, now)
    \/ Finish(r)

FailStep(r) ==
    \/ \E e \in GatewayErrors : GatewayFail(r, e)
    \/ LocalFail(r)

Next ==
    \/ \E id \in SoloIds : LocalStep(id)
    \/ \E r \in SoloRuns : SyncStep(r)
    \/ \E r \in SoloRuns : FailStep(r)
    \/ Render
    \/ \E up \in BOOLEAN : Connectivity(up)
    \/ Restart
    \/ \E id \in SoloIds : \E now \in Nows : RemoteWrite(id, now)

Spec == Init /\ [][Next]_vars

InitOnline == Init /\ isOnline

NextOverlap ==
    \/ \E id \in SoloIds : LocalStep(id)
    \/ \E r \in Runs : SyncStep(r)
    \/ \E r \in Runs : GatewayFail(r, ErrTransport)
    \/ Render

SpecOverlap == InitOnline /\ [][NextOverlap]_vars

NextWide ==
    \/ \E id \in Ids : LocalStep(id)
    \/ \E r \in SoloRuns : SyncStep(r)
    \/ \E r \in SoloRuns : GatewayFail(r, ErrTransport)
    \/ Render
    \/ \E id \in Ids : \E now \in Nows : RemoteWrite(id, now)

SpecWide == InitOnline /\ [][NextWide]_vars

\* The steps of an invocation while neither the replica nor the remote store
\* holds a record.
EmptyStep(r) ==
    \/ PerformSync(r)
    \/ PushRead(r)
    \/ PullRead(r)
    \/ \E now \in Nows : ServerFetch(r, now)
    \/ PullUltRead(r)
    \/ \E now \in Nows : PullUltWrite(r, now)
    \/ Finish(r)

NextBackground ==
    \/ \E tag \in SyncTags : SwSync(tag)
    \/ \E c \in Clients : PostOther(c)
    \/ \E c \in Clients : Deliver(c)
    \/ \E r \in SoloRuns : EmptyStep(r)
    \/ Render
    \/ \E id \in SoloIds : StrayUpdate(id)

SpecBackground == InitOnline /\ [][NextBackground]_vars

\* An await of the invocation r settles: it resolves, or it rejects.
Settles(r) == runs[r].pc # "idle" /\ (SyncStep(r) \/ FailStep(r))

NextLive ==
    \/ \E id \in SoloIds : LocalStep(id)
    \/ \E r \in SoloRuns : SyncStep(r)
    \/ \E r \in SoloRuns : FailStep(r)
    \/ Render
    \/ \E up \in BOOLEAN : Connectivity(up)

\* Every await of an invocation in progress settles in the end: a request
\* returns or fails, a call of the local store resolves or rejects, and the
\* continuation runs.
SpecLive == Init /\ [][NextLive]_vars /\ \A r \in SoloRuns : WF_vars(Settles(r))

\* ---- properties ---------------------------------------------------------
\* The invocation r returns from fullSync in this step.
Ends(r) == runs[r].pc # "fin" /\ runs'[r].pc = "fin"

\* C1: of two performSync calls made with no await between them, the one that
\* finds a sync in progress is skipped: it reads and writes nothing of the
\* local store and sends no request, so it is never in the pull phase.
C1_SecondCallSkipped ==
    \A r \in Runs : runs[r].upload.error = ErrBusy => runs[r].pc \notin PullPcs

\* C2: sync runs never overlap: at most one invocation is between the start
\* of its push phase and the end of its pull phase.
C2_RunsNeverOverlap ==
    Cardinality({r \in Runs : runs[r].pc \in PushPcs \cup PullPcs}) <= 1

\* C3: last-write-wins in the pull.  The test on a remote record says replace
\* exactly when there is no local record with its id or the remote updatedAt
\* is strictly greater than the local one, dirty or not; the replacement
\* stores the remote record with synced = TRUE and touches no other record;
\* a record that is not replaced is left as it is.
C3_LastWriteWins ==
    [][\A r \in Runs :
        LET d == Head(runs[r].resp)
            tested ==
                /\ runs[r].pc = "pullGet"
                /\ \/ runs'[r].pc = "pullPut"
                   \/ /\ runs'[r].pc \in {"pullGet", "pullUlt"}
                      /\ runs'[r].resp = Tail(runs[r].resp)
            replaced ==
                /\ runs[r].pc = "pullPut"
                /\ runs'[r].pc \in {"pullGet", "pullUlt"}
        IN  /\ tested =>
                /\ items' = items
                /\ (runs'[r].pc = "pullPut") <=>
                       (~Has(d.id) \/ d.updatedAt > items[d.id].updatedAt)
            /\ replaced =>
                /\ d.id \in DOMAIN items'
                /\ items'[d.id].title = d.title
                /\ items'[d.id].updatedAt = d.updatedAt
                /\ items'[d.id].synced
                /\ \A j \in DOMAIN items \ {d.id} : items'[j] = items[j]
      ]_vars

\* A dirty local record is about to be replaced by a strictly newer remote one.
C3_Witness ==
    \E r \in Runs :
        /\ runs[r].pc = "pullPut"
        /\ LET d == Head(runs[r].resp)
           IN  /\ Has(d.id)
               /\ ~items[d.id].synced
               /\ d.updatedAt > items[d.id].updatedAt

\* A record created in this step while offline is stored dirty.
CreatedDirty ==
    \A id \in bornOffline' \ bornOffline :
        id \in DOMAIN items' /\ ~items'[id].synced

\* A reload leaves the records created offline as they were.
SurvivesRestart ==
    Restart => \A id \in bornOffline \cap DOMAIN items :
                   id \in DOMAIN items' /\ items'[id] = items[id]

\* C4 as stated: a record created offline is dirty right after its creation,
\* is kept as it is by a restart, and is synced when a fullSync made after
\* its creation returns success.
C4_AsStated ==
    [][/\ CreatedDirty
       /\ SurvivesRestart
       /\ \A r \in Runs : Ends(r) /\ runs'[r].result.success =>
              \A id \in bornOffline \cap runs[r].had :
                  id \in DOMAIN items' /\ items'[id].synced
      ]_vars

\* C4, amended: a record created offline is dirty right after its creation,
\* is kept as it is by a restart, and is synced when a fullSync made after
\* its creation returns success, unless updateItem or deleteItem changed it
\* while that fullSync was in progress.
C4_OfflineRecord ==
    [][/\ CreatedDirty
       /\ SurvivesRestart
       /\ \A r \in Runs : Ends(r) /\ runs'[r].result.success =>
              \A id \in (bornOffline \cap runs[r].had) \ runs'[r].touched :
                  id \in DOMAIN items' /\ items'[id].synced
      ]_vars

\* A fullSync has returned success after pushing a record created offline.
C4_Witness ==
    \E r \in Runs :
        /\ runs[r].pc = "fin"
        /\ runs[r].result.success
        /\ \E id \in (bornOffline \cap runs[r].had \cap runs[r].ids) \ runs[r].touched :
               Has(id) /\ items[id].synced

\* The pull of r has written lastSyncTime in this step, not before what it read.
Advanced(r) ==
    /\ syncMetadata' # <<>>
    /\ syncMetadata'[1] = clock'
    /\ runs[r].lastSync # <<>> => syncMetadata'[1] >= runs[r].lastSync[1]

HasDeletedMarker(d) == "deleted" \in DOMAIN d /\ d.deleted

\* C6: after a successful fullSync that pushed the tombstone of a record,
\* neither GET /items nor GET /items/sync returns the record without a
\* deleted marker.
C6_TombstoneOnRemote ==
    \A r \in Runs :
        (runs[r].pc = "fin" /\ runs[r].result.success) =>
            \A id \in runs[r].ids \ runs[r].touched :
                (Has(id) /\ items[id].deleted /\ items[id].synced) =>
                    \A d \in FetchAll(server) \cup FetchSince(server, <<>>) :
                        d.id = id => HasDeletedMarker(d)

\* C7: a local tombstone persists: a record that is deleted stays deleted
\* through every later step, the pull of its remote copy included.
C7_TombstonePersists ==
    [][\A id \in DOMAIN items :
        items[id].deleted => (id \in DOMAIN items' /\ items'[id].deleted)
      ]_vars

\* The batches a client can submit: records of any ids, deleted or not.
Batches ==
    UNION {[S -> {[NewItem([title |-> t], 1) EXCEPT !.deleted = del] :
                    t \in Titles, del \in BOOLEAN}] : S \in SUBSET Ids}

\* What the claim compares of a store: ids and submitted field values, the
\* store's own timestamps apart.
Content(store) == {<<d.id, d.title>> : d \in store}

\* C8: batchUpsert is idempotent per id.  On every store that a request
\* POST /items/sync can meet, submitting a batch twice, now or later, leaves
\* the content that submitting it once leaves: one record for each id of the
\* batch, with the submitted field values.  The batch is the one in flight or
\* any other.
C8_BatchUpsertIdempotent ==
    \A r \in Runs : runs[r].pc = "pushSent" =>
        \A b \in Batches \cup {runs[r].batch} :
            \A t1 \in clock..MaxTime : \A t2 \in t1..MaxTime :
                LET once == BatchUpsert(server, b, t1)
                    twice == BatchUpsert(once, b, t2)
                IN  /\ Content(twice) = Content(once)
                    /\ Cardinality(twice) = Cardinality(once)
                    /\ \A id \in DOMAIN b :
                           /\ Cardinality({d \in twice : d.id = id}) = 1
                           /\ \A d \in twice : d.id = id => d.title = b[id].title

\* The batch in flight holds a record the store already has from this replica.
C8_Witness ==
    \E r \in Runs :
        /\ runs[r].pc = "pushSent"
        /\ \E id \in DOMAIN runs[r].batch :
               \E d \in server : d.id = id /\ d.title = runs[r].batch[id].title
                                 /\ d.title = LocalTitle

\* C9: no exception leaves fullSync.  Whatever failed, a gateway failure of
\* any kind or a failure of the local store, fullSync returns a result in
\* which the phase that failed is a failure, and so is the whole.
C9_NoExceptionEscapes ==
    \A r \in Runs :
        /\ runs[r].pc # "threw"
        /\ runs[r].upload.error # ErrNone => ~runs[r].upload.success
        /\ runs[r].download.error # ErrNone => ~runs[r].download.success
        /\ runs[r].pc = "fin" =>
               /\ DOMAIN runs[r].result = {"success", "synced", "downloaded"}
               /\ (runs[r].upload.error # ErrNone \/ runs[r].download.error # ErrNone)
                      => ~runs[r].result.success

\* A fullSync has returned after a gateway failure in its push and a local
\* store failure in its pull.
C9_Witness ==
    \E r \in Runs :
        /\ runs[r].pc = "fin"
        /\ runs[r].upload.error \in GatewayErrors
        /\ runs[r].download.error = ErrLocal

\* C10: the result is a success exactly when the push and the pull both
\* succeeded; a failed push with a successful pull is a failure.
C10_SuccessIsConjunction ==
    \A r \in Runs :
        runs[r].pc = "fin" =>
            /\ runs[r].result.success <=>
                   (runs[r].upload.success /\ runs[r].download.success)
            /\ runs[r].result.success <=>
                   (runs[r].upload.error = ErrNone /\ runs[r].download.error = ErrNone)

\* A fullSync has returned failure after a failed push and a successful pull.
C10_Witness ==
    \E r \in Runs :
        /\ runs[r].pc = "fin"
        /\ ~runs[r].upload.success
        /\ runs[r].download.success
        /\ ~runs[r].result.success

\* C11: within one invocation push precedes pull.  The pull phase is entered
\* only at its first await (the read of lastSyncTime) and only when the push
\* of the same invocation is over: from the last await of an accepted batch
\* (after markItemsAsSynced and updateLastSyncTime), from the read of an empty
\* dirty list, from a failed await of the push or from the refusal of the
\* guard; in the pull phase the result of the push is known and no batch is
\* in flight.
C11_PushBeforePull ==
    [][\A r \in Runs :
        /\ (runs'[r].pc \in PullPcs /\ runs[r].pc \notin PullPcs) =>
               /\ runs'[r].pc = "pullRead"
               /\ runs[r].pc \in PushPcs \cup {"idle"}
               /\ runs'[r].upload # Pending
               /\ runs'[r].upload.success =>
                      \/ runs[r].pc = "pushUltW"
                      \/ runs[r].pc = "pushRead" /\ runs'[r].ids = {}
        /\ runs'[r].pc \in PullPcs =>
               /\ runs'[r].upload # Pending
               /\ runs'[r].batch = EmptyTable
        /\ (runs[r].pc \in PullPcs /\ runs'[r].pc \in PushPcs) => FALSE
      ]_vars

\* The request of the pull is out after a push that marked its batch.
C11_Witness ==
    \E r \in Runs :
        /\ runs[r].pc = "pullSent"
        /\ runs[r].upload.success
        /\ runs[r].ids # {}
        /\ \A id \in runs[r].ids : Has(id) /\ items[id].synced

\* C12: a local record has synced = TRUE only if the remote store holds a
\* value for its id whose updatedAt is at least the local updatedAt.
C12_SyncedIffRemoteHolds ==
    \A id \in DOMAIN items :
        items[id].synced =>
            \E d \in server : d.id = id /\ d.updatedAt >= items[id].updatedAt

\* C13: lastSyncTime is mutated only after a completed pull: every step that
\* changes the sync metadata is the return of a successful pull, so no step
\* of the push phase and no failed pull changes it.
C13_OnlyPullWritesLastSync ==
    [][syncMetadata' # syncMetadata =>
           \E r \in Runs :
               /\ runs[r].pc \in PullPcs
               /\ runs'[r].pc = "fin"
               /\ runs'[r].download.success
      ]_vars

\* C14: after every successful pull the persisted lastSyncTime is the time
\* the store reported in the response to that pull's GET /items/sync.
C14_LastSyncIsServerTime ==
    [][\A r \in Runs :
        (Ends(r) /\ runs'[r].download.success) =>
            /\ syncMetadata' # <<>>
            /\ runs[r].timestamp # <<>>
            /\ syncMetadata'[1] = runs[r].timestamp[1]
      ]_vars

\* The step changes or creates the record id and is no step of an invocation.
LocalMutation(id) ==
    /\ \A r \in Runs : runs'[r].pc = runs[r].pc
    /\ id \in DOMAIN items'
    /\ id \notin DOMAIN items \/ items'[id] # items[id]

\* The record id is synced after the step and was not before it.
BecomesSynced(id) ==
    /\ id \in DOMAIN items'
    /\ items'[id].synced
    /\ id \notin DOMAIN items \/ ~items[id].synced

\* C15: every local mutation (addItem, updateItem, deleteItem) leaves the
\* record with synced = FALSE and updatedAt equal to the mutation time,
\* whatever fields the caller supplies; synced becomes TRUE only in the
\* marking of an accepted batch that holds the record's id or in the put of
\* the remote record with that id.
C15_MutationsLeaveDirty ==
    [][\A id \in Ids :
        /\ LocalMutation(id) =>
               /\ ~items'[id].synced
               /\ items'[id].updatedAt = clock'
        /\ BecomesSynced(id) =>
               \E r \in Runs :
                   \/ /\ runs[r].pc = "pushResp"
                      /\ runs'[r].pc = "pushUlt"
                      /\ id \in runs[r].ids
                   \/ /\ runs[r].pc = "pullPut"
                      /\ runs'[r].pc \in {"pullGet", "pullUlt"}
                      /\ Head(runs[r].resp).id = id
      ]_vars

\* A record that a push had marked is dirty again after a local change made
\* at a later time, during an invocation in progress.
C15_Witness ==
    \E r \in Runs : \E id \in runs[r].touched :
        /\ Has(id)
        /\ ~items[id].synced
        /\ items[id].updatedAt = clock
        /\ clock > 1
        /\ id \in runs[r].ids
        /\ runs[r].pc \in PullPcs
        /\ runs[r].upload.success

\* C16: local records are never destroyed: an id that is present in the
\* local table is present after every step, a delete, a pull and a reload
\* included.
C16_RecordsNeverDestroyed ==
    [][DOMAIN items \subseteq DOMAIN items']_vars

\* A record that was deleted and whose tombstone a push has marked is still
\* in the table.
C16_Witness ==
    \E id \in DOMAIN items : items[id].deleted /\ items[id].synced

\* C17: updateItem with an id that is absent from the local replica fails
\* with a NotFound error and leaves the replica unchanged.
C17_UpdateOfAbsentIdFails ==
    [][\A id \in DOMAIN strayUpdates' \ DOMAIN strayUpdates :
        /\ strayUpdates'[id] = ErrNotFound
        /\ replica' = replica
      ]_vars

\* The invocation r is made in this step.
Starts(r) == runs[r].pc = "idle" /\ runs'[r].pc # "idle"

\* C18: each offline-to-online edge causes exactly one immediate call of
\* performSync, and the guard of that call sees the online state: in the step
\* of the edge isOnlineRef is true when the call is made, exactly one
\* invocation starts unless a sync is shown in progress, and it is the call
\* of the auto-sync effect.  No other step makes that call: a render that is
\* not the edge starts nothing.
C18_OneCallPerRestore ==
    [][/\ (~isOnline /\ isOnline') =>
              /\ isOnlineRef'
              /\ isSyncingRef' = isSyncing
              /\ ~isSyncing =>
                     /\ Cardinality({r \in Runs : Starts(r)}) = 1
                     /\ \A r \in Runs : Starts(r) => runs'[r].by = TriggerRestored
              /\ isSyncing => runs' = runs
       /\ \A r \in Runs :
              (Starts(r) /\ runs'[r].by = TriggerRestored) => (~isOnline /\ isOnline')
       /\ (~(~isOnline /\ isOnline') /\ \E r \in Runs : Starts(r)) =>
              /\ isOnlineRef' = isOnlineRef
              /\ isSyncingRef' = isSyncingRef
      ]_vars

\* The call made at the edge has its request out, for a record created
\* offline.
C18_Witness ==
    \E r \in Runs :
        /\ runs[r].by = TriggerRestored
        /\ runs[r].pc = "pushSent"
        /\ runs[r].ids \cap bornOffline # {}
        /\ isOnline

\* The page c dispatches the oldest message of its inbox in this step.
Dispatches(c) == inbox[c] # <<>> /\ inbox'[c] = Tail(inbox[c])

\* C19: every 'sync' event with the tag 'sync-items' posts one
\* BACKGROUND_SYNC message to each open client, and each such message, when
\* the page's listener gets it, causes exactly one call of performSync in
\* that page at once (in this page the call starts an invocation when its
\* guard lets it); an event with another tag posts nothing, and a message of
\* another type causes no call.
C19_BackgroundSyncCalls ==
    [][/\ swEvent' # swEvent =>
              /\ swEvent'.tag = SyncItemsTag =>
                     \A c \in Clients : inbox'[c] = Append(inbox[c], BackgroundSync)
              /\ swEvent'.tag # SyncItemsTag => inbox' = inbox
              /\ calls' = calls
              /\ runs' = runs
       /\ \A c \in Clients :
              Dispatches(c) =>
                  LET msg == Head(inbox[c])
                      started == {r \in Runs : Starts(r)}
                  IN  /\ msg.type = "BACKGROUND_SYNC" =>
                             /\ calls'[c] = calls[c] + 1
                             /\ (c = ThisClient /\ isOnlineRef /\ ~isSyncingRef) =>
                                    /\ Cardinality(started) = 1
                                    /\ \A r \in started : runs'[r].by = TriggerMessage
                             /\ ~(c = ThisClient /\ isOnlineRef /\ ~isSyncingRef) =>
                                    runs' = runs
                      /\ msg.type # "BACKGROUND_SYNC" =>
                             /\ calls'[c] = calls[c]
                             /\ runs' = runs
       /\ \A c \in Clients :
              calls'[c] # calls[c] =>
                  /\ Dispatches(c)
                  /\ Head(inbox[c]) = BackgroundSync
       /\ \A r \in Runs :
              (Starts(r) /\ runs'[r].by = TriggerMessage) =>
                  /\ Dispatches(ThisClient)
                  /\ Head(inbox[ThisClient]) = BackgroundSync
      ]_vars

\* After a 'sync-items' event the invocation called by this page's handler
\* has its pull request out, the other page has made its call, and a message
\* of another type has been dispatched without a call.
C19_Witness ==
    /\ swEvent.tag = SyncItemsTag
    /\ calls[ThisClient] = 1
    /\ \E c \in Clients \ {ThisClient} : calls[c] = 1 /\ inbox[c] = <<>>
    /\ \E r \in Runs : runs[r].by = TriggerMessage /\ runs[r].pc = "pullSent"

\* C20: the orchestrator is Idle or Syncing, and every entry into Syncing is
\* followed by a return to Idle when the awaits of the invocation settle:
\* the flag of the hook, the flag of the service and the invocation itself
\* each go back, whether the run succeeded, failed or threw.
C20_SyncingReturnsToIdle ==
    /\ [](isSyncing \in BOOLEAN /\ svcIsSyncing \in BOOLEAN)
    /\ isSyncing ~> ~isSyncing
    /\ svcIsSyncing ~> ~svcIsSyncing
    /\ \A r \in SoloRuns : (runs[r].pc # "idle") ~> (runs[r].pc = "idle" /\ ~isSyncing)

\* The orchestrator is Idle again after an invocation whose batch reached the
\* remote store and whose push and pull both failed.
C20_Witness ==
    /\ ~isSyncing
    /\ ~svcIsSyncing
    /\ \A r \in Runs : runs[r].pc = "idle"
    /\ syncMetadata = <<>>
    /\ \E id \in DOMAIN items : ~items[id].synced /\ id \in ServerIds

\* The invocation r marks its accepted batch in this step.
Marks(r) == runs[r].pc = "pushResp" /\ runs'[r].pc = "pushUlt"

\* C21: when the gateway accepted a batch, the marking is applied to exactly
\* the submitted ids: every submitted id is synced after it, and a record
\* that was not in the batch, one created while the request was in flight
\* included, is left as it was.
C21_MarksExactlyTheBatch ==
    [][\A r \in Runs :
        Marks(r) =>
            /\ \A id \in runs[r].ids : id \in DOMAIN items' /\ items'[id].synced
            /\ \A id \in DOMAIN items \ runs[r].ids : items'[id] = items[id]
            /\ DOMAIN items' = DOMAIN items
      ]_vars

\* A batch has been marked while a record created after the batch was read
\* is dirty.
C21_Witness ==
    \E r \in Runs :
        /\ runs[r].pc = "pushUlt"
        /\ runs[r].ids # {}
        /\ \A id \in runs[r].ids : Has(id) /\ items[id].synced
        /\ \E id \in DOMAIN items \ (runs[r].ids \cup runs[r].had) : ~items[id].synced

\* The push of r ends in this step with a failure of the gateway.
PushFails(r) ==
    /\ runs[r].pc \in PushPcs
    /\ runs'[r].pc = "pullRead"
    /\ runs'[r].upload.error \in GatewayErrors

\* The push of r goes from one await to the next, before any marking.
PushAdvances(r) ==
    /\ runs[r].pc \in {"pushRead", "pushSent"}
    /\ runs'[r].pc # runs[r].pc

SingleAttempt(r) ==
    /\ runs'[r].posts <= 1
    /\ runs'[r].gets <= 1
    /\ runs'[r].pc # "idle" => (runs'[r].ids = {} => runs'[r].posts = 0)

C24_OfflineCallIsNoOp ==
    [][\A r \in Runs : Starts(r) => isOnline']_vars

\* C25: a call of performSync that arrives while a sync is in progress is
\* rejected and not queued.  An invocation starts only in the step of a
\* trigger's call, and of one made while no sync is shown in progress; and a
\* record modified locally during a run, after the run read the dirty list,
\* stays dirty through every step in which no invocation starts.
C25_RejectedNotQueued ==
    [][/\ \A r \in Runs :
            Starts(r) => (runs'[r].by # NoTrigger /\ ~isSyncing)
       /\ (\A r \in Runs : ~Starts(r)) =>
              \A r \in Runs : \A id \in runs[r].edited :
                  (Has(id) /\ ~items[id].synced) =>
                      (id \in DOMAIN items' /\ ~items'[id].synced)
      ]_vars

\* C26: no local edit is lost to a push.  A record that updateItem or
\* deleteItem modified after the push read the dirty list and before it marks
\* its batch is still dirty when markItemsAsSynced has resolved.
C26_EditSurvivesPush ==
    [][\A r \in Runs :
        Marks(r) =>
            \A id \in runs[r].edited : id \in DOMAIN items' /\ ~items'[id].synced
      ]_vars

\* GET /items/sync of the invocation r is answered in this step.
Answers(r) == runs[r].pc = "pullSent" /\ runs'[r].pc \in {"pullGet", "pullUlt"}

\* C27: pull completeness.  No pull skips a remote record that another
\* client wrote and that the replica does not hold or holds with a smaller
\* updatedAt: every response to fetchSince contains each such record, so a
\* successful pull applies it, also when the run pushed dirty records first.
C27_PullComplete ==
    [][\A r \in Runs :
        Answers(r) =>
            \A d \in server :
                (/\ d.title = RemoteTitle
                 /\ ~Has(d.id) \/ d.updatedAt > items[d.id].updatedAt) =>
                    \E i \in 1..Len(runs'[r].resp) : runs'[r].resp[i] = d
      ]_vars

\* db.items.put of the pull loop of the invocation r resolves in this step.
Puts(r) == runs[r].pc = "pullPut" /\ runs'[r].pc \in {"pullGet", "pullUlt"}

\* C28: the pull never overwrites a local record that, at the moment of the
\* write, has an updatedAt greater than or equal to that of the remote
\* record: a local change made between the pull's read of the record and its
\* put is not replaced by the older remote value.
C28_PutKeepsNewerLocal ==
    [][\A r \in Runs :
        Puts(r) =>
            LET d == Head(runs[r].resp)
            IN  Has(d.id) => items[d.id].updatedAt < d.updatedAt
      ]_vars

\* C29: the sync-metadata table holds at most one row in every reachable
\* state, also when two invocations reach updateLastSyncTime together on a
\* replica that has never synced, so that getLastSyncTime, which reads the
\* first row, reads the lastSyncTime written last.
C29_OneMetadataRow == Len(syncMetadata) <= 1

\* C30: isSyncing is truthful.  In every reachable state in which a fullSync
\* started by performSync has not returned, isSyncing is true, also when two
\* calls passed the guard before the flag was visible to it.
C30_IsSyncingTruthful ==
    \A r \in Runs : runs[r].pc \in PushPcs \cup PullPcs => isSyncing

====
